---- MODULE Spec2Model ----
(***************************************************************************)
(* Model of the stock predictor: the logistic-regression utilities         *)
(* (sigmoid, normalizeFeatures, trainModel, predict) and the React         *)
(* component's handlers (handleFileUpload, makePrediction).                *)
(*                                                                         *)
(* JavaScript numbers are modelled as exact rationals extended with NaN    *)
(* and the two infinities, with the IEEE rules for them.  Signed zeros     *)
(* are not distinguished.  Math.exp and Math.sqrt are evaluated in fixed   *)
(* point (Scale, SqrtScale).                                               *)
(***************************************************************************)
EXTENDS Integers, Sequences, FiniteSets, TLC

\* ------------------------------------------------------------- numbers

\* Resolution of the fixed-point evaluation of Math.exp.
Scale == 10000
\* Resolution of the fixed-point evaluation of Math.sqrt.
SqrtScale == 100

RECURSIVE GCD(_, _)
GCD(a, b) == IF b = 0 THEN a ELSE GCD(b, a % b)

AbsInt(n) == IF n < 0 THEN -n ELSE n

NaN == [k |-> "nan", n |-> 0, d |-> 1]
PosInf == [k |-> "inf", n |-> 1, d |-> 1]
NegInf == [k |-> "inf", n |-> -1, d |-> 1]

\* The number n/d (d # 0), in lowest terms with a positive denominator.
Fin(n, d) ==
    LET g == GCD(AbsInt(n), AbsInt(d))
        s == IF d < 0 THEN -1 ELSE 1
    IN [k |-> "fin", n |-> s * (n \div g), d |-> s * (d \div g)]

Num(n) == [k |-> "fin", n |-> n, d |-> 1]
Zero == Num(0)
One == Num(1)
Half == Fin(1, 2)

isNaN(x) == x.k = "nan"
IsFin(x) == x.k = "fin"
IsInf(x) == x.k = "inf"
Sign(x) == IF x.n > 0 THEN 1 ELSE IF x.n < 0 THEN -1 ELSE 0

Neg(x) == IF isNaN(x) THEN NaN ELSE [x EXCEPT !.n = -x.n]

\* x + y
Add(x, y) ==
    IF isNaN(x) \/ isNaN(y) THEN NaN
    ELSE IF IsInf(x) /\ IsInf(y) THEN (IF x.n = y.n THEN x ELSE NaN)
    ELSE IF IsInf(x) THEN x
    ELSE IF IsInf(y) THEN y
    ELSE Fin(x.n * y.d + y.n * x.d, x.d * y.d)

\* x - y
Sub(x, y) == Add(x, Neg(y))

\* x * y
Mul(x, y) ==
    IF isNaN(x) \/ isNaN(y) THEN NaN
    ELSE IF IsInf(x) \/ IsInf(y)
         THEN (IF Sign(x) * Sign(y) = 0 THEN NaN
               ELSE IF Sign(x) * Sign(y) > 0 THEN PosInf ELSE NegInf)
    ELSE Fin(x.n * y.n, x.d * y.d)

\* x / y
Div(x, y) ==
    IF isNaN(x) \/ isNaN(y) THEN NaN
    ELSE IF IsInf(x) /\ IsInf(y) THEN NaN
    ELSE IF IsInf(x) THEN (IF Sign(x) * Sign(y) < 0 THEN NegInf ELSE PosInf)
    ELSE IF IsInf(y) THEN Zero
    ELSE IF y.n = 0
         THEN (IF x.n = 0 THEN NaN ELSE IF x.n > 0 THEN PosInf ELSE NegInf)
    ELSE Fin(x.n * y.d, x.d * y.n)

\* x < y (false when either is NaN)
Lt(x, y) ==
    IF isNaN(x) \/ isNaN(y) THEN FALSE
    ELSE IF IsInf(x) THEN x.n < 0 /\ ~(IsInf(y) /\ y.n < 0)
    ELSE IF IsInf(y) THEN y.n > 0
    ELSE x.n * y.d < y.n * x.d

\* x === y (false when either is NaN)
StrictEq(x, y) == ~isNaN(x) /\ ~isNaN(y) /\ x = y

\* x > y, x >= y
Gt(x, y) == Lt(y, x)
Ge(x, y) == Gt(x, y) \/ StrictEq(x, y)

\* Math.min(x, y), Math.max(x, y): NaN when either argument is NaN
MathMin(x, y) == IF isNaN(x) \/ isNaN(y) THEN NaN ELSE IF Lt(y, x) THEN y ELSE x
MathMax(x, y) == IF isNaN(x) \/ isNaN(y) THEN NaN ELSE IF Lt(x, y) THEN y ELSE x

\* Math.min(...xs), Math.max(...xs) of a sequence (Infinity, -Infinity when empty)
RECURSIVE MathMinOf(_)
MathMinOf(xs) == IF xs = << >> THEN PosInf ELSE MathMin(Head(xs), MathMinOf(Tail(xs)))
RECURSIVE MathMaxOf(_)
MathMaxOf(xs) == IF xs = << >> THEN NegInf ELSE MathMax(Head(xs), MathMaxOf(Tail(xs)))

\* Math.abs(x)
MathAbs(x) == IF isNaN(x) THEN NaN ELSE [x EXCEPT !.n = AbsInt(x.n)]

\* Math.round(x): the nearest integer, halves upwards
MathRound(x) == IF IsFin(x) THEN Num((2 * x.n + x.d) \div (2 * x.d)) ELSE x

\* e^(-f/Scale) * Scale for 0 <= f <= Scale, by the exponential series:
\* term is the k-th term's magnitude, sgn its sign.
RECURSIVE ExpSeries(_, _, _, _)
ExpSeries(f, term, k, sgn) ==
    IF term = 0 THEN 0
    ELSE sgn * term + ExpSeries(f, (term * f) \div (k * Scale), k + 1, -sgn)

\* e^(-q) * x for an integer q >= 0
RECURSIVE ExpShift(_, _)
ExpShift(x, q) ==
    IF q = 0 \/ x = 0 THEN x
    ELSE ExpShift((x * ExpSeries(Scale, Scale, 1, 1)) \div Scale, q - 1)

\* e^(-t) * Scale for a finite t >= 0
ExpNegScaled(t) ==
    LET q == t.n \div t.d
        f == ((t.n % t.d) * Scale) \div t.d
    IN ExpShift(ExpSeries(f, Scale, 1, 1), q)

\* Math.exp(x)
MathExp(x) ==
    IF isNaN(x) THEN NaN
    ELSE IF IsInf(x) THEN (IF x.n > 0 THEN PosInf ELSE Zero)
    ELSE IF x.n <= 0 THEN Fin(ExpNegScaled(Neg(x)), Scale)
    ELSE Div(Num(Scale), Num(ExpNegScaled(x)))

\* The integer square root of n >= 0, by bisection on lo..hi.
RECURSIVE ISqrt(_, _, _)
ISqrt(n, lo, hi) ==
    IF lo >= hi THEN lo
    ELSE LET mid == (lo + hi + 1) \div 2
         IN IF mid * mid <= n THEN ISqrt(n, mid, hi) ELSE ISqrt(n, lo, mid - 1)

\* Math.sqrt(x)
MathSqrt(x) ==
    IF isNaN(x) THEN NaN
    ELSE IF IsInf(x) THEN (IF x.n > 0 THEN PosInf ELSE NaN)
    ELSE IF x.n < 0 THEN NaN
    ELSE LET s == (x.n * SqrtScale * SqrtScale) \div x.d
         IN Fin(ISqrt(s, 0, s), SqrtScale)

\* ------------------------------------------------------------ utils/ml

\* const sigmoid = (z) => 1 / (1 + Math.exp(-z))
sigmoid(z) == Div(One, Add(One, MathExp(Neg(z))))

\* Sequences are indexed from 1: index i of the code is position i + 1 here,
\* so the bias term (index 0) is position 1.
BiasPos == 1

RECURSIVE SelectNotNaN(_)
SelectNotNaN(xs) ==
    IF xs = << >> THEN << >>
    ELSE IF isNaN(Head(xs)) THEN SelectNotNaN(Tail(xs))
    ELSE <<Head(xs)>> \o SelectNotNaN(Tail(xs))

\* An absent optional argument (params?: NormalizationParams).
undefined == [min |-> NaN, max |-> NaN, absent |-> TRUE]
Params(lo, hi) == [min |-> lo, max |-> hi, absent |-> FALSE]

\* The map of normalizeFeatures' last line: isNaN(x) ? 0.5 : (x - min) / (max - min)
scaleValue(x, lo, hi) == IF isNaN(x) THEN Half ELSE Div(Sub(x, lo), Sub(hi, lo))

\* A plausible slip: the constant-feature test (min === max) left out.
normalizeFeaturesNoConstantTest(xs, params) ==
    LET validData == SelectNotNaN(xs)
    IN IF Len(validData) = 0 THEN [q \in DOMAIN xs |-> Half]
       ELSE IF ~params.absent
            THEN [q \in DOMAIN xs |-> scaleValue(xs[q], params.min, params.max)]
       ELSE [q \in DOMAIN xs |->
                scaleValue(xs[q], MathMinOf(validData), MathMaxOf(validData))]

\* normalizeFeatures(data, params?)
normalizeFeatures(xs, params) ==
    LET validData == SelectNotNaN(xs)
    IN IF Len(validData) = 0 THEN [q \in DOMAIN xs |-> Half]
       ELSE IF ~params.absent
            THEN (IF StrictEq(params.min, params.max)
                  THEN [q \in DOMAIN xs |-> Half]
                  ELSE [q \in DOMAIN xs |-> scaleValue(xs[q], params.min, params.max)])
       ELSE LET lo == MathMinOf(validData)
                hi == MathMaxOf(validData)
            IN IF StrictEq(lo, hi) THEN [q \in DOMAIN xs |-> Half]
               ELSE [q \in DOMAIN xs |-> scaleValue(xs[q], lo, hi)]

\* trainModel: the column of feature j over all rows
featureValues(rows, j) == [r \in DOMAIN rows |-> rows[r][j]]

\* trainModel: normalization parameters of every feature (bias included)
computeNormalizationParams(rows) ==
    [j \in DOMAIN rows[1] |->
        Params(MathMinOf(featureValues(rows, j)), MathMaxOf(featureValues(rows, j)))]

\* A plausible slip: the bias term normalized like every other feature.
normalizeTrainingValueNoBias(val, pos, params) == normalizeFeatures(<<val>>, params[pos])[1]

\* trainModel: one entry of the normalized matrix
normalizeTrainingValue(val, pos, params) ==
    IF pos = BiasPos THEN One ELSE normalizeFeatures(<<val>>, params[pos])[1]

\* trainModel: the normalized training matrix
normalizeTrainingRows(rows, params) ==
    [r \in DOMAIN rows |->
        [pos \in DOMAIN rows[r] |-> normalizeTrainingValue(rows[r][pos], pos, params)]]

\* A plausible slip: neither the value nor the normalized value clamped.
normalizePredictValueNoClamp(f, pos, mdl) ==
    IF pos = BiasPos THEN One
    ELSE IF isNaN(f) THEN Half
    ELSE normalizeFeatures(<<f>>, mdl.normalizationParams[pos])[1]

\* predict: one entry of the normalized feature vector
normalizePredictValue(f, pos, mdl) ==
    IF pos = BiasPos THEN One
    ELSE IF isNaN(f) THEN Half
    ELSE LET lo == mdl.normalizationParams[pos].min
             hi == mdl.normalizationParams[pos].max
             clampedValue == MathMax(lo, MathMin(hi, f))
             normalized == normalizeFeatures(<<clampedValue>>, mdl.normalizationParams[pos])[1]
         IN MathMax(Zero, MathMin(One, normalized))

\* predict: the normalized feature vector
normalizePredictFeatures(fs, mdl) ==
    [pos \in DOMAIN fs |-> normalizePredictValue(fs[pos], pos, mdl)]

\* reduce((sum, x, i) => sum + x * theta[i], 0) over positions pos..Len(xs)
RECURSIVE weightedSum(_, _, _, _)
weightedSum(xs, theta, pos, sum) ==
    IF pos > Len(xs) THEN sum
    ELSE weightedSum(xs, theta, pos + 1, Add(sum, Mul(xs[pos], theta[pos])))

\* predict: Math.max(0, Math.min(1, sigmoid(z)))
predictProbability(fs, mdl) ==
    LET z == weightedSum(normalizePredictFeatures(fs, mdl), mdl.theta, 1, Zero)
    IN MathMax(Zero, MathMin(One, sigmoid(z)))

\* predict: probability >= 0.5 ? 'Up' : 'Down'
directionOf(probability) == IF Ge(probability, Half) THEN "Up" ELSE "Down"

\* predict: Math.round(probability * 100)
scaledProbabilityOf(probability) == MathRound(Mul(probability, Num(100)))

\* predict(features, model)
predict(fs, mdl) ==
    LET probability == predictProbability(fs, mdl)
    IN [probability |-> scaledProbabilityOf(probability),
        prediction |-> directionOf(probability)]

\* ------------------------------------------------------------- state

VARIABLES
    stockData,   \* component state: the parsed rows
    prediction,  \* component state: the last PredictionResult, or null
    loading,     \* component state
    run,         \* the locals of the last makePrediction call on stockData
    call,        \* which function of utils/ml is being called, if any
    train,       \* the locals of the trainModel call
    pred         \* the locals of the predict call

vars == <<stockData, prediction, loading, run, call, train, pred>>
uiVars == <<stockData, prediction, loading, run>>

null == [probability |-> NaN, prediction |-> "null"]

\* The locals of makePrediction before any call.
noModel == [theta |-> << >>, normalizationParams |-> << >>]
\* In place of a model: the call threw.
TypeError == [theta |-> <<NaN>>, normalizationParams |-> << >>]
noRun ==
    [exit |-> "none", examples |-> << >>, trained |-> FALSE, model |-> noModel,
     predicted |-> FALSE, input |-> << >>]

\* ------------------------------------------- utils/ml: trainModel, stepwise

\* Bounds of the explored inputs.
MaxExamples == 2
MaxIterations == 7

\* Default arguments of trainModel.
defaultLearningRate == Fin(1, 100)
defaultIterations == 5000
defaultConvergenceThreshold == Fin(1, 1000000)
\* if (noImprovementCount >= 5) break
stallLimit == 5

\* Training examples the calls are drawn from: a feature row and its label.
\* The rows carry a raw bias that is not 1, a constant column and an infinity.
ExampleRows ==
    { [row |-> <<One, Num(2), Num(5)>>, label |-> 1],
      [row |-> <<NaN, Num(2), Num(9)>>, label |-> 0],
      [row |-> <<Num(7), Num(4), PosInf>>, label |-> 1] }

TrainingSets == UNION { [1..m -> ExampleRows] : m \in 0..MaxExamples }

ThresholdValues == { defaultConvergenceThreshold, Num(5), PosInf }

\* Values computeCost returns.  Its logarithms and exponentials are not
\* evaluated: every call returns one of these (equal, rising, falling,
\* infinite when a logarithm of 0 is taken, NaN when 0 * -Infinity is).
CostValues == { One, Num(3), PosInf, NaN }

\* Entries calculateGradient returns for a matrix without NaN, likewise:
\* theta then records how many updates were applied.
GradientValues == { One }

hasNaN(X) == \E r \in DOMAIN X : \E pos \in DOMAIN X[r] : isNaN(X[r][pos])

\* computeCost(X, y, theta, lambda): NaN as soon as an entry of X is NaN
computeCost(X) == IF hasNaN(X) THEN { NaN } ELSE CostValues

\* calculateGradient(X, y, theta, m, lambda): every entry NaN as soon as an
\* entry of X is NaN (each entry sums (h[i] - y[i]) * x[j] over all rows)
calculateGradient(X, theta) ==
    IF hasNaN(X) THEN { [j \in DOMAIN theta |-> NaN] }
    ELSE { [j \in DOMAIN theta |-> g] : g \in GradientValues }

noTrain ==
    [pc |-> "none", features |-> << >>, labels |-> << >>, iterations |-> 0,
     convergenceThreshold |-> Zero, theta |-> << >>, normalizationParams |-> << >>,
     normalizedFeatures |-> << >>, prevCost |-> PosInf, noImprovementCount |-> 0,
     i |-> 0, updates |-> 0, streak |-> 0, broke |-> FALSE]

noPred ==
    [features |-> << >>, model |-> noModel,
     normalizedFeatures |-> << >>, probability |-> NaN, result |-> null]

\* trainModel(features, labels, learningRate, iterations, convergenceThreshold):
\* the statements before the loop.  features[0].length throws a TypeError
\* when features is empty.
trainModelEnter(examples, its, threshold) ==
    LET rows == [e \in DOMAIN examples |-> examples[e].row]
        ls == [e \in DOMAIN examples |-> examples[e].label]
    IN IF Len(rows) = 0
       THEN [noTrain EXCEPT !.pc = "TypeError", !.iterations = its,
                            !.convergenceThreshold = threshold]
       ELSE LET params == computeNormalizationParams(rows)
            IN [noTrain EXCEPT
                   !.pc = "loop", !.features = rows, !.labels = ls,
                   !.iterations = its, !.convergenceThreshold = threshold,
                   !.theta = [j \in DOMAIN rows[1] |-> One],
                   !.normalizationParams = params,
                   !.normalizedFeatures = normalizeTrainingRows(rows, params)]

TrainModelCall ==
    /\ call = "none"
    /\ \E examples \in TrainingSets, its \in 0..MaxIterations, threshold \in ThresholdValues :
          train' = trainModelEnter(examples, its, threshold)
    /\ call' = "trainModel"
    /\ UNCHANGED <<uiVars, pred>>

\* A plausible slip: the stall counter never reset.
stallCountNoReset(count, costDiff, threshold) ==
    IF Lt(costDiff, threshold) THEN count + 1 ELSE count

\* The convergence check's counter: costDiff < convergenceThreshold ?
\* noImprovementCount + 1 : 0
stallCount(count, costDiff, threshold) ==
    IF Lt(costDiff, threshold) THEN count + 1 ELSE 0

\* A plausible slip: the loop test written i <= iterations.
loopTestInclusive(t) == t.i <= t.iterations

\* for (...; i < iterations; ...)
loopTest(t) == t.i < t.iterations

\* One iteration of the gradient-descent loop, with the gradient and the
\* cost the two calls returned.  Three fields only record the run: updates
\* counts the assignments to theta, streak the stalled iterations in a row
\* up to this one, broke whether the break was taken.
trainModelIteration(t, gradients, currentCost) ==
    LET theta2 == [j \in DOMAIN t.theta |->
                      Sub(t.theta[j], Mul(defaultLearningRate, gradients[j]))]
        costDiff == MathAbs(Sub(t.prevCost, currentCost))
        count == stallCount(t.noImprovementCount, costDiff, t.convergenceThreshold)
        stalled == Lt(costDiff, t.convergenceThreshold)
        break == stalled /\ count >= stallLimit
    IN IF break
       THEN [t EXCEPT !.theta = theta2, !.updates = @ + 1, !.streak = IF stalled THEN @ + 1 ELSE 0,
                      !.noImprovementCount = count, !.pc = "return", !.broke = TRUE]
       ELSE [t EXCEPT !.theta = theta2, !.updates = @ + 1, !.streak = IF stalled THEN @ + 1 ELSE 0,
                      !.noImprovementCount = count, !.prevCost = currentCost,
                      !.i = @ + 1]

TrainModelIteration ==
    /\ call = "trainModel"
    /\ train.pc = "loop"
    /\ loopTest(train)
    /\ \E gradients \in calculateGradient(train.normalizedFeatures, train.theta),
          currentCost \in computeCost(train.normalizedFeatures) :
          train' = trainModelIteration(train, gradients, currentCost)
    /\ UNCHANGED <<uiVars, call, pred>>

\* return { theta, normalizationParams }
TrainModelReturn ==
    /\ call = "trainModel"
    /\ \/ train.pc = "return"
       \/ train.pc = "loop" /\ ~loopTest(train)
    /\ train' = [train EXCEPT !.pc = "returned"]
    /\ UNCHANGED <<uiVars, call, pred>>

\* ------------------------------------------------ utils/ml: predict, called

\* Feature vectors and models the calls are drawn from: a raw bias that is
\* not 1, values inside, on and far outside the bounds, NaN; weights of
\* both signs and NaN; a constant feature (min = max).
FeatureValues == { NaN, Num(-1000), Zero, Num(2), Num(4), Num(1004) }
BiasValues == { One, NaN, Num(7) }
FeatureVectors == { <<b, x, y>> : b \in BiasValues, x \in FeatureValues, y \in FeatureValues }
WeightValues == { Num(-2), One }
Thetas ==
    { <<a, b, c>> : a \in WeightValues, b \in WeightValues, c \in WeightValues }
        \cup { <<NaN, NaN, NaN>> }
BoundsValues == { Params(Zero, Num(4)), Params(Num(2), Num(2)) }
Models ==
    { [theta |-> th, normalizationParams |-> <<p0, p1, p2>>] :
        th \in Thetas, p0 \in { Params(One, One), Params(Zero, Num(4)) },
        p1 \in BoundsValues, p2 \in BoundsValues }

predictCall(fs, mdl) ==
    [features |-> fs, model |-> mdl,
     normalizedFeatures |-> normalizePredictFeatures(fs, mdl),
     probability |-> predictProbability(fs, mdl),
     result |-> predict(fs, mdl)]

PredictCall ==
    /\ call = "none"
    /\ \E fs \in FeatureVectors, mdl \in Models : pred' = predictCall(fs, mdl)
    /\ call' = "predict"
    /\ UNCHANGED <<uiVars, train>>

MlInit ==
    /\ stockData = << >>
    /\ prediction = null
    /\ loading = FALSE
    /\ run = noRun
    /\ call = "none"
    /\ train = noTrain
    /\ pred = noPred

MlNext == TrainModelCall \/ TrainModelIteration \/ TrainModelReturn \/ PredictCall

\* The functions of utils/ml, each called on inputs drawn from the sets above.
SpecMl == MlInit /\ [][MlNext]_vars

\* ------------------------------------------ components/StockPredictor.tsx

\* Bound of the explored files: the number of data rows.
MaxLen == 8

\* A CSV field: text that parses as the number value, or text that does not.
Field(v) == [numeric |-> TRUE, value |-> v]
Junk == [numeric |-> FALSE, value |-> 0]

\* parseFloat(cleanPrice), parseInt(cleanVolume, 10): NaN for text that is
\* not a number
parseFloat(field) == IF field.numeric THEN Num(field.value) ELSE NaN
parseInt(field) == IF field.numeric THEN Num(field.value) ELSE NaN

\* Closing prices and volumes of the explored files, day by day: a series
\* that moves and one that stays flat.
Series ==
    { [prices |-> <<4, 3, 4, 2, 5, 4, 4, 6, 3, 5>>,
       volumes |-> <<10, 12, 11, 13, 12, 14, 13, 15, 14, 16>>],
      [prices |-> <<5>>, volumes |-> <<10>>] }
BaseRow(series, day) ==
    [date |-> day,
     closePrice |-> Field(series.prices[((day - 1) % Len(series.prices)) + 1]),
     volume |-> Field(series.volumes[((day - 1) % Len(series.volumes)) + 1])]

\* What a file may have wrong on one day (or two days in a row).
Defects == { "priceJunk", "priceZero", "volumeJunk", "volumeZero", "volumeZeroTwice" }
DefectRow(series, day, at, defect) ==
    IF day = at /\ defect = "priceJunk"
    THEN [BaseRow(series, day) EXCEPT !.closePrice = Junk]
    ELSE IF day = at /\ defect = "priceZero"
    THEN [BaseRow(series, day) EXCEPT !.closePrice = Field(0)]
    ELSE IF day = at /\ defect = "volumeJunk"
    THEN [BaseRow(series, day) EXCEPT !.volume = Junk]
    ELSE IF day = at /\ defect \in {"volumeZero", "volumeZeroTwice"}
    THEN [BaseRow(series, day) EXCEPT !.volume = Field(0)]
    ELSE IF day = at + 1 /\ defect = "volumeZeroTwice"
    THEN [BaseRow(series, day) EXCEPT !.volume = Field(0)]
    ELSE BaseRow(series, day)

\* The lines of a file: a header, the data rows, a blank last line.
header == [blank |-> FALSE, isHeader |-> TRUE, row |-> [date |-> 0, closePrice |-> Junk, volume |-> Junk]]
blankLine == [blank |-> TRUE, isHeader |-> FALSE, row |-> [date |-> 0, closePrice |-> Junk, volume |-> Junk]]
FileOf(rows) ==
    <<header>> \o [r \in DOMAIN rows |-> [blank |-> FALSE, isHeader |-> FALSE, row |-> rows[r]]]
               \o <<blankLine>>
Files ==
    { FileOf([day \in 1..len |-> BaseRow(series, day)]) : series \in Series, len \in 0..MaxLen }
    \cup { FileOf([day \in 1..len |-> DefectRow(series, day, at, defect)]) :
             series \in Series, len \in 1..MaxLen, at \in 1..MaxLen, defect \in Defects }

RECURSIVE SelectNotBlank(_)
SelectNotBlank(lines) ==
    IF lines = << >> THEN << >>
    ELSE IF Head(lines).blank THEN SelectNotBlank(Tail(lines))
    ELSE <<Head(lines)>> \o SelectNotBlank(Tail(lines))

\* reader.onload: rows.slice(1).filter(row => row.trim()).map(...)
parseFile(lines) ==
    LET rows == SelectNotBlank(Tail(lines))
    IN [r \in DOMAIN rows |->
           [date |-> rows[r].row.date,
            price |-> parseFloat(rows[r].row.closePrice),
            volume |-> parseInt(rows[r].row.volume)]]

\* x || 0
OrZero(x) == IF isNaN(x) \/ x = Zero THEN Zero ELSE x

\* stockData[i], stockData.slice(from, to) with the code's indices (from 0)
At(data, i) == data[i + 1]
Slice(data, from, to) == [q \in 1..(to - from) |-> data[from + q]]

RECURSIVE SumOf(_)
SumOf(xs) == IF xs = << >> THEN Zero ELSE Add(Head(xs), SumOf(Tail(xs)))

\* reduce((acc, v, idx, arr) => idx === 0 ? 0 : acc + (v > arr[idx - 1] ? 1 : -1), 0)
trendSum(xs) ==
    SumOf([q \in 1..(Len(xs) - 1) |-> IF Gt(xs[q + 1], xs[q]) THEN One ELSE Num(-1)])

\* The nine values makePrediction computes from the five days last5Days and
\* the day currentDay (lastDay for the prediction), and the bias.
computeFeatures(last5Days, currentDay) ==
    LET prices == [q \in DOMAIN last5Days |-> last5Days[q].price]
        volumes == [q \in DOMAIN last5Days |-> last5Days[q].volume]
        avgPrice == Div(SumOf([q \in DOMAIN prices |-> OrZero(prices[q])]), Num(5))
        priceChange == Sub(currentDay.price, last5Days[5].price)
        priceChangePercent == Mul(Div(priceChange, last5Days[5].price), Num(100))
        priceVolatility ==
            MathSqrt(Div(SumOf([q \in DOMAIN prices |->
                                   Mul(Sub(prices[q], avgPrice), Sub(prices[q], avgPrice))]),
                         Num(5)))
        avgVolume == Div(SumOf([q \in DOMAIN volumes |-> OrZero(volumes[q])]), Num(5))
        volumeChange == Sub(currentDay.volume, last5Days[5].volume)
        volumeChangePercent == Mul(Div(volumeChange, last5Days[5].volume), Num(100))
        priceTrend == Div(trendSum(prices), Num(4))
        volumeTrend == Div(trendSum(volumes), Num(4))
    IN <<One, avgPrice, avgVolume, priceChange, volumeChange, priceChangePercent,
         volumeChangePercent, priceVolatility, priceTrend, volumeTrend>>

\* A plausible slip: one of the nine isNaN tests left out
\* (volumeChangePercent).
anyNaNWithoutVolumePercent(fs) ==
    \E pos \in DOMAIN fs : pos \notin {BiasPos, 7} /\ isNaN(fs[pos])

\* if (isNaN(avgPrice) || ... || isNaN(volumeTrend))
anyNaN(fs) == \E pos \in DOMAIN fs : pos # BiasPos /\ isNaN(fs[pos])

\* labels.push(nextDay.price > currentDay.price ? 1 : 0)
labelOf(currentDay, nextDay) == IF Gt(nextDay.price, currentDay.price) THEN 1 ELSE 0

\* The for loop of makePrediction from index i on: the examples it pushes.
RECURSIVE extractFrom(_, _)
extractFrom(data, i) ==
    IF ~(i < Len(data) - 1) THEN << >>
    ELSE LET fs == computeFeatures(Slice(data, i - 5, i), At(data, i))
         IN (IF anyNaN(fs) THEN << >>
             ELSE << [row |-> fs, label |-> labelOf(At(data, i), At(data, i + 1))] >>)
            \o extractFrom(data, i + 1)

\* A plausible slip: the loop started one index late.
extractExamplesLate(data) == IF Len(data) < 6 THEN << >> ELSE extractFrom(data, 6)

\* makePrediction up to the end of its loop: nothing below 6 days
extractExamples(data) == IF Len(data) < 6 THEN << >> ELSE extractFrom(data, 5)

\* Weights trainModel returns after its default 5000 iterations: every one
\* NaN when the normalized matrix holds a NaN (see calculateGradient),
\* otherwise some finite vector, drawn from these.
trainedThetas(X) ==
    IF defaultIterations = 0 THEN { [j \in DOMAIN X[1] |-> One] }
    ELSE IF hasNaN(X) THEN { [j \in DOMAIN X[1] |-> NaN] }
    ELSE { [j \in DOMAIN X[1] |-> w] : w \in WeightValues }

\* trainModel(features, labels) as makePrediction calls it: the models it
\* may return; features[0].length throws a TypeError when there is none
trainModel(examples) ==
    IF Len(examples) = 0 THEN { TypeError }
    ELSE LET rows == [e \in DOMAIN examples |-> examples[e].row]
             params == computeNormalizationParams(rows)
         IN { [theta |-> th, normalizationParams |-> params] :
                 th \in trainedThetas(normalizeTrainingRows(rows, params)) }

\* A plausible slip: training not skipped when an example is missing.
enoughExamplesAny(examples) == TRUE

\* if (features.length < 2) { setLoading(false); return; } passed
enoughExamples(examples) == ~(Len(examples) < 2)

\* makePrediction from the state (data, before, wasLoading), with mdl the
\* model trainModel returns: the prediction, loading and locals it ends with.
\* An exception of trainModel leaves the handler after setLoading(true).
makePrediction(data, before, wasLoading, mdl) ==
    IF Len(data) < 6
    THEN [prediction |-> before, loading |-> wasLoading, run |-> [noRun EXCEPT !.exit = "short"]]
    ELSE LET examples == extractExamples(data)
         IN IF ~enoughExamples(examples)
            THEN [prediction |-> before, loading |-> FALSE,
                  run |-> [noRun EXCEPT !.exit = "insufficient", !.examples = examples]]
            ELSE IF mdl = TypeError
            THEN [prediction |-> before, loading |-> TRUE,
                  run |-> [noRun EXCEPT !.exit = "TypeError", !.examples = examples]]
            ELSE LET last5Days == Slice(data, Len(data) - 5, Len(data))
                     lastDay == At(data, Len(data) - 1)
                     input == computeFeatures(last5Days, lastDay)
                 IN IF anyNaN(input)
                    THEN [prediction |-> before, loading |-> FALSE,
                          run |-> [noRun EXCEPT !.exit = "invalid", !.examples = examples,
                                                !.trained = TRUE, !.model = mdl]]
                    ELSE [prediction |-> predict(input, mdl), loading |-> FALSE,
                          run |-> [exit |-> "predicted", examples |-> examples,
                                   trained |-> TRUE, model |-> mdl,
                                   predicted |-> TRUE, input |-> input]]

\* The models the trainModel call of makePrediction may return (none is
\* asked for when the call is not reached).
modelsFor(data) ==
    IF Len(data) >= 6 /\ enoughExamples(extractExamples(data))
    THEN trainModel(extractExamples(data))
    ELSE { noModel }

\* reader.onload of handleFileUpload: setStockData(parsedData)
HandleFileUpload ==
    /\ call = "none"
    /\ \E file \in Files : stockData' = parseFile(file)
    /\ run' = noRun
    /\ UNCHANGED <<prediction, loading, call, train, pred>>

\* A click on the button, enabled unless loading || stockData.length < 2
MakePrediction ==
    /\ call = "none"
    /\ ~(loading \/ Len(stockData) < 2)
    /\ \E mdl \in modelsFor(stockData) :
          LET after == makePrediction(stockData, prediction, loading, mdl)
          IN /\ prediction' = after.prediction
             /\ loading' = after.loading
             /\ run' = after.run
    /\ UNCHANGED <<stockData, call, train, pred>>

Init ==
    /\ stockData = << >>
    /\ prediction = null
    /\ loading = FALSE
    /\ run = noRun
    /\ call = "none"
    /\ train = noTrain
    /\ pred = noPred

Next == HandleFileUpload \/ MakePrediction

\* The component: files are uploaded and the button is clicked.
Spec == Init /\ [][Next]_vars

\* ------------------------------------------------------------- claims

InTrainModel == call = "trainModel"
InPredict == call = "predict"
ExamplesSupplied == Len(train.features)

\* C1: trainModel called with fewer than 2 examples fails ("insufficient
\* data"): it never returns a model.
C1_TrainModelRejectsFewerThanTwo ==
    (InTrainModel /\ ExamplesSupplied < 2) => train.pc # "returned"

\* C3: the loop performs at most maxIterations updates of theta and then
\* returns, whatever costs computeCost returns: while it runs, the number
\* of updates is the loop index, which never exceeds maxIterations, and a
\* step (another iteration or the return) is always possible; without the
\* early stop it performs exactly maxIterations updates, with it no more.
C3_AtMostMaxIterationsThenTerminates ==
    InTrainModel =>
        /\ train.updates <= train.iterations
        /\ train.pc = "loop" => train.updates = train.i
        /\ train.pc \in {"loop", "return"} => ENABLED (TrainModelIteration \/ TrainModelReturn)
        /\ (train.pc = "returned" /\ ~train.broke) => train.updates = train.iterations
        /\ (train.pc = "returned" /\ train.broke) => train.updates <= train.iterations

C3_Witness ==
    /\ InTrainModel
    /\ train.pc = "returned"
    /\ train.iterations = MaxIterations
    /\ train.updates = MaxIterations
    /\ isNaN(train.prevCost)

C3_WitnessShortened ==
    /\ InTrainModel
    /\ train.pc = "returned"
    /\ train.broke
    /\ train.updates < train.iterations

\* C10: the stall counter is the number of stalled iterations in a row
\* (|prevCost - currentCost| < convergenceThreshold) ending at the last
\* one; the loop stops early exactly when that number reaches 5, and runs
\* all maxIterations updates otherwise; the first iteration is never
\* stalled, so an early stop takes at least 6 updates.
C10_StallRule ==
    InTrainModel =>
        /\ train.noImprovementCount = train.streak
        /\ train.broke <=> (train.streak >= stallLimit /\ train.updates > 0)
        /\ train.broke => (train.streak = stallLimit /\ train.updates >= stallLimit + 1)
        /\ train.pc = "loop" => train.streak < stallLimit
        /\ train.updates = 1 => train.streak = 0
        /\ (train.pc = "returned" /\ ~train.broke) => train.updates = train.iterations

C10_Witness ==
    /\ InTrainModel
    /\ train.pc = "returned"
    /\ train.broke
    /\ train.updates = stallLimit + 1
    /\ train.iterations > train.updates

\* A run in which a streak of 4 stalled iterations was broken and the loop
\* ran on to the end.
C10_WitnessStreakBroken ==
    /\ InTrainModel
    /\ train.pc = "returned"
    /\ ~train.broke
    /\ train.updates = MaxIterations
    /\ train.streak = 1
    /\ train.convergenceThreshold = defaultConvergenceThreshold

PosOfFeatures == { pos \in DOMAIN pred.features : pos # BiasPos }
BoundsAt(pos) == pred.model.normalizationParams[pos]

\* C5: a feature above its max gives the same PredictionResult as the
\* value max, and one below its min the same as the value min.
C5_PredictIgnoresOutOfRange ==
    InPredict =>
        \A pos \in PosOfFeatures :
            /\ Gt(pred.features[pos], BoundsAt(pos).max) =>
                 pred.result =
                    predict([pred.features EXCEPT ![pos] = BoundsAt(pos).max], pred.model)
            /\ Lt(pred.features[pos], BoundsAt(pos).min) =>
                 pred.result =
                    predict([pred.features EXCEPT ![pos] = BoundsAt(pos).min], pred.model)

C5_Witness ==
    /\ InPredict
    /\ \E pos \in PosOfFeatures :
          /\ pred.features[pos] = Add(BoundsAt(pos).max, Num(1000))
          /\ Lt(BoundsAt(pos).min, BoundsAt(pos).max)
    /\ IsFin(pred.result.probability)
    /\ pred.result.probability.n \in 1..99

\* C7: with min = max, normalization gives exactly 0.5 for every value:
\* in the training matrix, in predict's normalized vector, and from
\* normalizeFeatures itself on the raw value.
C7_ConstantFeatureIsHalf ==
    /\ (InTrainModel /\ train.pc # "TypeError") =>
          \A r \in DOMAIN train.features : \A pos \in DOMAIN train.features[r] :
             (pos # BiasPos /\ StrictEq(train.normalizationParams[pos].min,
                                        train.normalizationParams[pos].max))
                => train.normalizedFeatures[r][pos] = Half
    /\ InPredict =>
          \A pos \in PosOfFeatures :
             StrictEq(BoundsAt(pos).min, BoundsAt(pos).max) =>
                /\ pred.normalizedFeatures[pos] = Half
                /\ normalizeFeatures(<<pred.features[pos]>>, BoundsAt(pos)) = <<Half>>

C7_Witness ==
    /\ InPredict
    /\ \E pos \in PosOfFeatures :
          /\ StrictEq(BoundsAt(pos).min, BoundsAt(pos).max)
          /\ Gt(pred.features[pos], BoundsAt(pos).max)
    /\ \E pos \in PosOfFeatures :
          /\ StrictEq(BoundsAt(pos).min, BoundsAt(pos).max)
          /\ isNaN(pred.features[pos])

C7_WitnessTraining ==
    /\ InTrainModel
    /\ Len(train.features) = 2
    /\ \E pos \in DOMAIN train.normalizationParams :
          /\ pos # BiasPos
          /\ StrictEq(train.normalizationParams[pos].min, train.normalizationParams[pos].max)

\* C8: the bias is exactly 1 in every normalized training row and in
\* predict's normalized vector, whatever raw value and bounds it has, so
\* it contributes exactly theta[0] to predict's weighted sum.
C8_BiasIsOne ==
    /\ (InTrainModel /\ train.pc # "TypeError") =>
          \A r \in DOMAIN train.normalizedFeatures :
             train.normalizedFeatures[r][BiasPos] = One
    /\ InPredict =>
          /\ pred.normalizedFeatures[BiasPos] = One
          /\ weightedSum(pred.normalizedFeatures, pred.model.theta, BiasPos, Zero)
                = weightedSum(pred.normalizedFeatures, pred.model.theta, BiasPos + 1,
                              pred.model.theta[BiasPos])

C8_Witness ==
    /\ InTrainModel
    /\ train.pc = "returned"
    /\ \E r \in DOMAIN train.features : isNaN(train.features[r][BiasPos])
    /\ \E r \in DOMAIN train.features : train.features[r][BiasPos] = Num(7)

C8_WitnessPredict ==
    /\ InPredict
    /\ isNaN(pred.features[BiasPos])
    /\ BoundsAt(BiasPos) = Params(Zero, Num(4))
    /\ IsFin(pred.result.probability)

\* The training examples of the data in the state, and what a step of
\* makePrediction on unchanged data looks like.
ValidExamples == extractExamples(stockData)
MakePredictionStep == stockData' = stockData /\ run'.exit # "none" /\ run # run'

\* C2: in makePrediction, with fewer than 2 valid training examples
\* neither trainModel nor predict is called, the stored prediction stays
\* as it was and loading ends false; predict is only called with a model
\* trainModel returned for at least 2 examples.
C2_PredictOnlyAfterTraining ==
    /\ run.predicted =>
          /\ run.trained
          /\ Len(run.examples) >= 2
          /\ run.model \in trainModel(run.examples)
          /\ run.model # TypeError
    /\ run.trained => Len(run.examples) >= 2
    /\ (run.exit # "none" /\ Len(ValidExamples) < 2) =>
          (~run.trained /\ ~run.predicted /\ ~loading)
C2_NoTrainingBelowTwoExamples ==
    /\ []C2_PredictOnlyAfterTraining
    /\ [][(MakePredictionStep /\ Len(ValidExamples) < 2) =>
             (prediction' = prediction /\ ~loading' /\ ~run'.trained /\ ~run'.predicted)]_vars

C2_Witness ==
    /\ run.exit = "insufficient"
    /\ Len(stockData) >= 8
    /\ Len(run.examples) = 1
    /\ prediction # null
    /\ ~loading

\* The indices of makePrediction's loop (from 0), and the example the
\* claim describes for index i: window observations[i-5..i-1], current
\* observations[i], next observations[i+1].
LoopIndices == 5..(Len(stockData) - 2)
ExpectedRow(i) ==
    computeFeatures(<<stockData[i - 4], stockData[i - 3], stockData[i - 2],
                      stockData[i - 1], stockData[i]>>, stockData[i + 1])
ExpectedLabel(i) == IF Gt(stockData[i + 2].price, stockData[i + 1].price) THEN 1 ELSE 0
KeptIndices == { i \in LoopIndices : ~anyNaN(ExpectedRow(i)) }
MostExamples == IF Len(stockData) > 6 THEN Len(stockData) - 6 ELSE 0

\* C4: extraction gives nothing below 6 observations, at most one example
\* per index 5..L-2 (exactly L-6 when none is skipped), each built from the
\* window before its index, with label 1 iff the next price is higher.
C4_ExtractionShape ==
    /\ Len(stockData) < 6 => ValidExamples = << >>
    /\ Len(ValidExamples) <= MostExamples
    /\ Len(ValidExamples) = Cardinality(KeptIndices)
    /\ KeptIndices = LoopIndices => Len(ValidExamples) = MostExamples
    /\ \A i \in KeptIndices :
          ValidExamples[Cardinality({ j \in KeptIndices : j <= i })]
             = [row |-> ExpectedRow(i), label |-> ExpectedLabel(i)]
    /\ run.exit \in {"insufficient", "invalid", "predicted"} => run.examples = ValidExamples

C4_Witness ==
    /\ run.exit = "predicted"
    /\ Len(run.examples) = 2
    /\ KeptIndices = LoopIndices
    /\ run.examples[1].label = 0
    /\ stockData[7].price = stockData[6].price
    /\ run.examples[2].label = 1

C4_WitnessSkipped ==
    /\ run.exit = "insufficient"
    /\ Len(stockData) = 8
    /\ Len(run.examples) = 1
    /\ KeptIndices # LoopIndices

\* C6: predict returns an integer probability in 0..100 and 'Up' exactly
\* when the unrounded probability is >= 0.5, so 'Up' comes with at least
\* 50 and 'Down' with at most 50.
C6_PredictionWellFormed ==
    run.predicted =>
        /\ IsFin(prediction.probability)
        /\ prediction.probability.d = 1
        /\ prediction.probability.n \in 0..100
        /\ prediction.prediction \in {"Up", "Down"}
        /\ prediction.prediction = "Up" <=> Ge(predictProbability(run.input, run.model), Half)
        /\ prediction.prediction = "Up" => prediction.probability.n >= 50
        /\ prediction.prediction = "Down" => prediction.probability.n <= 50

\* C9: the vector passed to predict is the training formula's for the
\* final observation as current day and the five observations before it.
C9_InferenceUsesPrecedingWindow ==
    run.predicted =>
        run.input = ExpectedRow(Len(stockData) - 1)

\* The nine computed values of loop index i (positions 2..10 of the row),
\* and how many examples the iteration of index i adds.
ComputedValues(i) == [pos \in 2..10 |-> ExpectedRow(i)[pos]]
SomeValueNaN(i) == \E pos \in 2..10 : isNaN(ComputedValues(i)[pos])
AddedAt(i) == Len(extractFrom(stockData, i)) - Len(extractFrom(stockData, i + 1))
StoredFeatures == [e \in DOMAIN run.examples |-> run.examples[e].row]
StoredLabels == [e \in DOMAIN run.examples |-> run.examples[e].label]
ExtractionDone == run.exit \in {"insufficient", "invalid", "predicted"}

\* C11: skip rule. The iteration of index i adds no feature row and no
\* label when one of its nine computed values is NaN, and otherwise
\* exactly one row of 10 values with bias 1 and one label; so the stored
\* features and labels have the same length, one per index without a NaN,
\* and no stored feature row holds a NaN.
C11_SkipRule ==
    /\ \A i \in LoopIndices :
          /\ SomeValueNaN(i) => AddedAt(i) = 0
          /\ ~SomeValueNaN(i) =>
                /\ AddedAt(i) = 1
                /\ Head(extractFrom(stockData, i)).row = ExpectedRow(i)
                /\ Len(ExpectedRow(i)) = 10
                /\ ExpectedRow(i)[BiasPos] = One
                /\ Head(extractFrom(stockData, i)).label \in {0, 1}
    /\ ExtractionDone =>
          /\ Len(StoredFeatures) = Len(StoredLabels)
          /\ Len(StoredFeatures) = Cardinality({ i \in LoopIndices : ~SomeValueNaN(i) })
          /\ \A e \in DOMAIN StoredFeatures :
                /\ Len(StoredFeatures[e]) = 10
                /\ StoredFeatures[e][BiasPos] = One
                /\ \A pos \in 1..10 : ~isNaN(StoredFeatures[e][pos])

\* An iteration skipped because the last window day's volume is zero and
\* divides a zero change (0 / 0), next to iterations that add an example.
C11_Witness ==
    /\ ExtractionDone
    /\ Len(stockData) = 8
    /\ \E i \in LoopIndices :
          /\ stockData[i].volume = Zero
          /\ isNaN(ComputedValues(i)[7])
          /\ AddedAt(i) = 0
    /\ Len(StoredFeatures) = 1

\* An iteration skipped because a price of its window is not a number.
C11_WitnessJunkPrice ==
    /\ ExtractionDone
    /\ \E i \in LoopIndices :
          /\ \E day \in (i - 4)..i : isNaN(stockData[day].price)
          /\ isNaN(ComputedValues(i)[8])
          /\ AddedAt(i) = 0
    /\ \E i \in LoopIndices : AddedAt(i) = 1

\* A zero divisor under a change that is not zero gives Infinity, which is
\* not NaN: the iteration adds its example.
C11_WitnessZeroDivisorKept ==
    /\ ExtractionDone
    /\ \E i \in LoopIndices :
          /\ stockData[i].volume = Zero
          /\ IsInf(ComputedValues(i)[7])
          /\ AddedAt(i) = 1

\* A result in [0,1].
InUnitInterval(x) == IsFin(x) /\ Ge(x, Zero) /\ Ge(One, x)

\* The calls of normalizeFeatures with bounds min < max: by trainModel on
\* the value of row r at pos, and by predict on the clamped value at pos.
TrainingCalls ==
    { c \in (DOMAIN train.features) \X (DOMAIN train.normalizationParams) :
        /\ c[2] # BiasPos
        /\ Lt(train.normalizationParams[c[2]].min, train.normalizationParams[c[2]].max) }
PredictCalls ==
    { pos \in PosOfFeatures : ~isNaN(pred.features[pos]) /\ Lt(BoundsAt(pos).min, BoundsAt(pos).max) }

\* C12: with min < max, normalizing a value that is not NaN gives a result
\* in [0,1], also for a value below min or above max (the value clamped to
\* [min, max], mapped to (clamped - min) / (max - min), the result clamped
\* to [0,1]); a NaN value gives 0.5.
C12_NormalizeWithinUnitInterval ==
    /\ (InTrainModel /\ train.pc # "TypeError") =>
          \A c \in TrainingCalls :
             LET value == train.features[c[1]][c[2]]
                 result == train.normalizedFeatures[c[1]][c[2]]
             IN /\ isNaN(value) => result = Half
                /\ ~isNaN(value) => InUnitInterval(result)
    /\ InPredict =>
          \A pos \in PredictCalls :
             LET clamped == MathMax(BoundsAt(pos).min, MathMin(BoundsAt(pos).max, pred.features[pos]))
             IN /\ InUnitInterval(normalizeFeatures(<<clamped>>, BoundsAt(pos))[1])
                /\ InUnitInterval(pred.normalizedFeatures[pos])

====
